---- MODULE Spec2Model ----
(***************************************************************************)
(* Model of the BFT cover platform (src/cover.py): the BftCover entity,    *)
(* its gate-state classifier, its commands and its watcher.                *)
(***************************************************************************)
EXTENDS Integers, Sequences, FiniteSets, TLC

VARIABLES
    phase,                  \* "new" before __init__, "live" after, "failed" if __init__ raised
    _state,                 \* self._state
    _available,             \* self._available
    _unsub_listener_cover,  \* self._unsub_listener_cover: NoneVal or the timer's handle
    access_token,           \* self.access_token
    _obtained_token,        \* the attribute self._obtained_token: "unset" or "True"
    status,                 \* <<t>>: the telemetry the last operation fetched; <<>>: none
    timers,                 \* live track_utc_time_change registrations in the host
    unsubCalls,             \* how often a cancellation handle was invoked
    sent,                   \* the command requests issued by _put_command, in order
    scheduled,              \* updates scheduled by _check_state and not yet run
    cmdSincePoll,           \* a command started the watcher since the last completed update()
    revoked,                \* the requests remove_token has issued
    gateSettled,            \* the remote gate has come to rest for good (environment)
    last                    \* the last operation: its name, its input and how it ended

vars == <<phase, _state, _available, _unsub_listener_cover, access_token,
          _obtained_token, status, timers, unsubCalls, sent,
          scheduled, cmdSincePoll, revoked, gateSettled, last>>

-----------------------------------------------------------------------------
(* Bounds *)

MaxSent == 2          \* command requests per behaviour
MaxScheduled == 1     \* scheduled updates waiting at a time
MaxVel == 1           \* largest velocity sampled
MaxLiveSent == 1      \* command requests per behaviour of SpecLive

-----------------------------------------------------------------------------
(* Constants of the program *)

NoneVal == "None"

STATE_OPEN == "open"
STATE_CLOSED == "closed"
STATE_MOVING == "moving"
STATE_OFFLINE == "offline"
STATE_STOPPED == "stopped"

STATES_MAP ==
    [k \in {"open", "moving", "closed", "stopped"} |->
        CASE k = "open" -> STATE_OPEN
          [] k = "moving" -> STATE_MOVING
          [] k = "closed" -> STATE_CLOSED
          [] k = "stopped" -> STATE_STOPPED]

FullPos == 100

\* The samples the classifier is checked on. The code validates neither
\* positions nor velocities, so every position from -1 to 101 and every
\* velocity from -1 to MaxVel is classified.
ClassifierInputs ==
    [first_engine_pos_int : -1 .. FullPos + 1, second_engine_pos_int : -1 .. FullPos + 1,
     first_engine_vel_int : -1 .. MaxVel, second_engine_vel_int : -1 .. MaxVel]

\* A telemetry record.
Sample4(p1, p2, v1, v2) ==
    [first_engine_pos_int |-> p1, second_engine_pos_int |-> p2,
     first_engine_vel_int |-> v1, second_engine_vel_int |-> v2]

\* The samples the entity is polled with: closed, open, part-way (one engine
\* or both) at rest, moving from a closed, a part-way and an open position,
\* and one sample with a velocity below 0, which the code accepts unchecked.
Telemetry ==
    {Sample4(0, 0, 0, 0), Sample4(FullPos, FullPos, 0, 0),
     Sample4(0, 5, 0, 0), Sample4(FullPos, 5, 0, 0),
     Sample4(0, 0, 1, 0), Sample4(5, 5, 1, 1), Sample4(FullPos, FullPos, 0, 1),
     Sample4(5, 5, -1, -1)}

\* How requests.get(...).json() inside _get_variable can end: a telemetry
\* record, requests.exceptions.ConnectionError, a JSON object without an
\* expected key (KeyError in _get_gate_status), or any other exception
\* (a read timeout, a body that is not JSON).
FetchOutcomes == {"ok", "ConnectionError", "KeyError", "OtherError"}

\* What _get_variable hands back for an outcome: <<t>> or nothing.
Bodies(fetch) == IF fetch = "ok" THEN {<<t>> : t \in Telemetry} ELSE {<<>>}

\* How _put_command can end: a JSON object with status "done", with another
\* status, without a status key, or an exception.
PutOutcomes == {"done", "other", "nostatus", "error"}

-----------------------------------------------------------------------------
(* GateStateClassifier: BftCover._get_gate_status *)

\* The four guards of _get_gate_status, in the order the code tests them.
IsOpenGuard(t) ==
    (t.first_engine_pos_int = 100 /\ t.second_engine_pos_int = 100)
    /\ (t.first_engine_vel_int = 0 /\ t.second_engine_vel_int = 0)

\* Mutant: the "stopped" guard compares the positions with >= 0.
IsStoppedGuard_ge(t) ==
    (t.first_engine_vel_int = 0 /\ t.second_engine_vel_int = 0)
    /\ (t.first_engine_pos_int >= 0 \/ t.second_engine_pos_int >= 0)

IsStoppedGuard(t) ==
    (t.first_engine_vel_int = 0 /\ t.second_engine_vel_int = 0)
    /\ (t.first_engine_pos_int > 0 \/ t.second_engine_pos_int > 0)

IsClosedGuard(t) ==
    (t.first_engine_pos_int = 0 /\ t.second_engine_pos_int = 0)
    /\ (t.first_engine_vel_int = 0 /\ t.second_engine_vel_int = 0)

IsMovingGuard(t) ==
    t.first_engine_vel_int > 0 \/ t.second_engine_vel_int > 0

\* Mutant: the "stopped" guard is tested before the "open" guard.
_get_gate_status_stoppedFirst(t) ==
    IF IsStoppedGuard(t) THEN STATES_MAP["stopped"]
    ELSE IF IsOpenGuard(t) THEN STATES_MAP["open"]
    ELSE IF IsClosedGuard(t) THEN STATES_MAP["closed"]
    ELSE IF IsMovingGuard(t) THEN STATES_MAP["moving"]
    ELSE NoneVal

\* Mutant: the "stopped" guard asks for both positions above 0.
_get_gate_status_stoppedBoth(t) ==
    IF IsOpenGuard(t) THEN STATES_MAP["open"]
    ELSE IF (t.first_engine_vel_int = 0 /\ t.second_engine_vel_int = 0)
            /\ (t.first_engine_pos_int > 0 /\ t.second_engine_pos_int > 0)
    THEN STATES_MAP["stopped"]
    ELSE IF IsClosedGuard(t) THEN STATES_MAP["closed"]
    ELSE IF IsMovingGuard(t) THEN STATES_MAP["moving"]
    ELSE NoneVal

\* Mutant: the "stopped" guard compares the positions with >= 0.
_get_gate_status_stoppedGe(t) ==
    IF IsOpenGuard(t) THEN STATES_MAP["open"]
    ELSE IF (t.first_engine_vel_int = 0 /\ t.second_engine_vel_int = 0)
            /\ (t.first_engine_pos_int >= 0 \/ t.second_engine_pos_int >= 0)
    THEN STATES_MAP["stopped"]
    ELSE IF IsClosedGuard(t) THEN STATES_MAP["closed"]
    ELSE IF IsMovingGuard(t) THEN STATES_MAP["moving"]
    ELSE NoneVal

\* Mutant: the "open" guard looks at the positions only.
_get_gate_status_openNoVel(t) ==
    IF t.first_engine_pos_int = 100 /\ t.second_engine_pos_int = 100
    THEN STATES_MAP["open"]
    ELSE IF IsStoppedGuard(t) THEN STATES_MAP["stopped"]
    ELSE IF IsClosedGuard(t) THEN STATES_MAP["closed"]
    ELSE IF IsMovingGuard(t) THEN STATES_MAP["moving"]
    ELSE NoneVal

\* Mutant: the "moving" guard asks for both velocities above 0.
_get_gate_status_movingBoth(t) ==
    IF IsOpenGuard(t) THEN STATES_MAP["open"]
    ELSE IF IsStoppedGuard(t) THEN STATES_MAP["stopped"]
    ELSE IF IsClosedGuard(t) THEN STATES_MAP["closed"]
    ELSE IF t.first_engine_vel_int > 0 /\ t.second_engine_vel_int > 0
    THEN STATES_MAP["moving"]
    ELSE NoneVal

\* First match wins; falling off the end returns None.
_get_gate_status(t) ==
    IF IsOpenGuard(t) THEN STATES_MAP["open"]
    ELSE IF IsStoppedGuard(t) THEN STATES_MAP["stopped"]
    ELSE IF IsClosedGuard(t) THEN STATES_MAP["closed"]
    ELSE IF IsMovingGuard(t) THEN STATES_MAP["moving"]
    ELSE NoneVal

-----------------------------------------------------------------------------
(* BftCover.update as a function of the entity's fields and the fetch *)

\* Mutant: update() never cancels the watcher.
update_neverCancels(fetch, body, st, av, unsub, token) ==
    LET exc == IF token = NoneVal THEN "TypeError"
               ELSE IF fetch = "OtherError" THEN "OtherError"
               ELSE "none"
        st1 == IF exc # "none" THEN st
               ELSE IF fetch = "ok" THEN _get_gate_status(body[1])
               ELSE STATE_OFFLINE
        av1 == IF exc = "none" /\ fetch = "ok" THEN TRUE ELSE av
    IN  [state |-> st1, available |-> av1, unsub |-> unsub,
         cancelled |-> FALSE, exc |-> exc]

\* Mutant: update() invokes the handle and forgets to clear it.
update_keepsHandle(fetch, body, st, av, unsub, token) ==
    LET exc == IF token = NoneVal THEN "TypeError"
               ELSE IF fetch = "OtherError" THEN "OtherError"
               ELSE "none"
        st1 == IF exc # "none" THEN st
               ELSE IF fetch = "ok" THEN _get_gate_status(body[1])
               ELSE STATE_OFFLINE
        av1 == IF exc = "none" /\ fetch = "ok" THEN TRUE ELSE av
        cancel == exc = "none" /\ st1 \notin {STATE_MOVING} /\ unsub # NoneVal
    IN  [state |-> st1, available |-> av1, unsub |-> unsub,
         cancelled |-> cancel, exc |-> exc]

\* Mutant: a successful update() marks the entity unavailable.
update_marksUnavailable(fetch, body, st, av, unsub, token) ==
    LET exc == IF token = NoneVal THEN "TypeError"
               ELSE IF fetch = "OtherError" THEN "OtherError"
               ELSE "none"
        st1 == IF exc # "none" THEN st
               ELSE IF fetch = "ok" THEN _get_gate_status(body[1])
               ELSE STATE_OFFLINE
        av1 == IF exc = "none" /\ fetch = "ok" THEN FALSE ELSE av
        cancel == exc = "none" /\ st1 \notin {STATE_MOVING} /\ unsub # NoneVal
    IN  [state |-> st1, available |-> av1,
         unsub |-> IF cancel THEN NoneVal ELSE unsub,
         cancelled |-> cancel, exc |-> exc]

\* The new _state, _available and handle, whether the handle was invoked,
\* and the exception that leaves update(), if any.
update(fetch, body, st, av, unsub, token) ==
    LET exc == IF token = NoneVal THEN "TypeError"
               ELSE IF fetch = "OtherError" THEN "OtherError"
               ELSE "none"
        st1 == IF exc # "none" THEN st
               ELSE IF fetch = "ok" THEN _get_gate_status(body[1])
               ELSE STATE_OFFLINE
        av1 == IF exc = "none" /\ fetch = "ok" THEN TRUE ELSE av
        cancel == exc = "none" /\ st1 \notin {STATE_MOVING} /\ unsub # NoneVal
    IN  [state |-> st1, available |-> av1,
         unsub |-> IF cancel THEN NoneVal ELSE unsub,
         cancelled |-> cancel, exc |-> exc]

-----------------------------------------------------------------------------
(* Helpers of the commands *)

\* Mutant: _put_command swallows the exception of the request.
_put_command_swallows(func, out) ==
    IF access_token = NoneVal
    THEN [sent |-> sent, exc |-> "TypeError"]
    ELSE [sent |-> Append(sent, func), exc |-> "none"]

\* BftCover._put_command: the request log after the call and the exception
\* that leaves it, if any. The header is built before the request is made.
_put_command(func, out) ==
    IF access_token = NoneVal
    THEN [sent |-> sent, exc |-> "TypeError"]
    ELSE [sent |-> Append(sent, func),
          exc |-> IF out = "error" THEN "error" ELSE "none"]

\* Mutant: _start_watcher registers a timer without looking at the handle.
_start_watcher_always(unsub, n) ==
    [unsub |-> "handle", timers |-> n + 1]

\* BftCover._start_watcher: the handle and the live registrations after it.
_start_watcher(unsub, n) ==
    IF unsub = NoneVal
    THEN [unsub |-> "handle", timers |-> n + 1]
    ELSE [unsub |-> unsub, timers |-> n]

\* ret.get("status") == "done" (close_cover, open_cover) against
\* ret["status"] == "done" (stop_cover), which raises without the key.
StatusIsDone(out, subscript) ==
    IF out = "nostatus" /\ subscript
    THEN [ret |-> NoneVal, exc |-> "KeyError"]
    ELSE [ret |-> IF out = "done" THEN "True" ELSE "False", exc |-> "none"]

\* Mutant: a command that was sent sets _state to "moving" at once.
Command_setsMoving(op, skip, func, subscript, out) ==
    /\ phase = "live"
    /\ IF _state \notin {skip}
       THEN /\ Len(sent) < MaxSent
            /\ LET put == _put_command(func, out)
                   w == _start_watcher(_unsub_listener_cover, timers)
                   r == StatusIsDone(out, subscript)
               IN  /\ sent' = put.sent
                   /\ IF put.exc # "none"
                      THEN /\ UNCHANGED <<_unsub_listener_cover, timers, cmdSincePoll,
                                          _state>>
                           /\ last' = [op |-> op, out |-> out, ret |-> NoneVal,
                                       exc |-> put.exc]
                      ELSE /\ _unsub_listener_cover' = w.unsub
                           /\ timers' = w.timers
                           /\ cmdSincePoll' = TRUE
                           /\ _state' = STATE_MOVING
                           /\ last' = [op |-> op, out |-> out, ret |-> r.ret,
                                       exc |-> r.exc]
       ELSE /\ UNCHANGED <<sent, _unsub_listener_cover, timers, cmdSincePoll, _state>>
            /\ last' = [op |-> op, out |-> "skip", ret |-> NoneVal, exc |-> "none"]
    /\ status' = <<>>
    /\ UNCHANGED <<phase, _available, access_token, _obtained_token,
                   unsubCalls, scheduled, revoked, gateSettled>>

\* The body shared by close_cover, open_cover and stop_cover: `skip` is the
\* literal of the guard's list, `func` the verb sent, `subscript` whether the
\* result is read with ret["status"].
Command(op, skip, func, subscript, out) ==
    /\ phase = "live"
    /\ IF _state \notin {skip}
       THEN /\ Len(sent) < MaxSent
            /\ LET put == _put_command(func, out)
                   w == _start_watcher(_unsub_listener_cover, timers)
                   r == StatusIsDone(out, subscript)
               IN  /\ sent' = put.sent
                   /\ IF put.exc # "none"
                      THEN /\ UNCHANGED <<_unsub_listener_cover, timers, cmdSincePoll>>
                           /\ last' = [op |-> op, out |-> out, ret |-> NoneVal,
                                       exc |-> put.exc]
                      ELSE /\ _unsub_listener_cover' = w.unsub
                           /\ timers' = w.timers
                           /\ cmdSincePoll' = TRUE
                           /\ last' = [op |-> op, out |-> out, ret |-> r.ret,
                                       exc |-> r.exc]
       ELSE /\ UNCHANGED <<sent, _unsub_listener_cover, timers, cmdSincePoll>>
            /\ last' = [op |-> op, out |-> "skip", ret |-> NoneVal, exc |-> "none"]
    /\ status' = <<>>
    /\ UNCHANGED <<phase, _state, _available, access_token, _obtained_token,
                   unsubCalls, scheduled, revoked, gateSettled>>

\* A call of update() on the live entity, by the host's poll or as a
\* scheduled update.
RunUpdate(fetch, body) ==
    LET u == update(fetch, body, _state, _available, _unsub_listener_cover, access_token)
    IN  /\ _state' = u.state
        /\ _available' = u.available
        /\ _unsub_listener_cover' = u.unsub
        /\ timers' = IF u.cancelled THEN timers - 1 ELSE timers
        /\ unsubCalls' = IF u.cancelled THEN unsubCalls + 1 ELSE unsubCalls
        /\ cmdSincePoll' = IF u.exc = "none" THEN FALSE ELSE cmdSincePoll
        /\ status' = IF u.exc = "none" THEN body ELSE <<>>
        /\ last' = [op |-> "update", out |-> fetch, ret |-> NoneVal, exc |-> u.exc]

-----------------------------------------------------------------------------
(* Initial state and operations *)

Init ==
    /\ phase = "new"
    /\ _state = NoneVal
    /\ _available = TRUE
    /\ _unsub_listener_cover = NoneVal
    /\ access_token = NoneVal
    /\ _obtained_token = "unset"
    /\ status = <<>>
    /\ timers = 0
    /\ unsubCalls = 0
    /\ sent = <<>>
    /\ scheduled = 0
    /\ cmdSincePoll = FALSE
    /\ revoked = 0
    /\ gateSettled = FALSE
    /\ last = [op |-> "none", out |-> NoneVal, ret |-> NoneVal, exc |-> "none"]

\* BftCover.__init__. tokenCfg: the configuration supplies a token;
\* tokOut: how get_token ends ("ok", "KeyError" caught inside it, "error"
\* raised by the request); devOut: how get_device_id ends ("found",
\* "notfound" falling off the loop, "error" raised). self.device_id only
\* names the device in the request URLs, so it is not kept as state.
__init__(tokenCfg, tokOut, devOut, fetch, body) ==
    /\ phase = "new"
    /\ LET tokRaised == ~tokenCfg /\ tokOut = "error"
           token == IF tokenCfg THEN "cfg"
                    ELSE IF tokOut = "ok" THEN "fresh" ELSE NoneVal
           devRaised == ~tokRaised /\ devOut = "error"
           u == update(fetch, body, NoneVal, TRUE, NoneVal, token)
           ran == ~tokRaised /\ ~devRaised
           \* update() lets neither ConnectionError nor KeyError out, so the
           \* two handlers of __init__ never run
           handled == ran /\ u.exc \in {"ConnectionError", "KeyError"}
           exc == IF tokRaised \/ devRaised THEN "error"
                  ELSE IF handled THEN "none" ELSE u.exc
       IN  /\ access_token' = token
           /\ _obtained_token' = IF ~tokenCfg /\ ~tokRaised THEN "True" ELSE "unset"
           /\ _state' = IF handled THEN STATE_OFFLINE
                        ELSE IF ran THEN u.state ELSE NoneVal
           /\ _available' = IF handled THEN FALSE
                            ELSE IF ran THEN u.available ELSE TRUE
           /\ status' = IF ran /\ u.exc = "none" THEN body ELSE <<>>
           /\ phase' = IF exc = "none" THEN "live" ELSE "failed"
           /\ last' = [op |-> "__init__",
                       out |-> IF ran /\ token # NoneVal THEN fetch ELSE "notfetched",
                       ret |-> NoneVal, exc |-> exc]
    /\ UNCHANGED <<_unsub_listener_cover, timers, unsubCalls, sent, scheduled,
                   cmdSincePoll, revoked, gateSettled>>

close_cover(out) == Command("close_cover", "close", "close", FALSE, out)

open_cover(out) == Command("open_cover", "open", "open", FALSE, out)

stop_cover(out) == Command("stop_cover", "stopped", "stop", TRUE, out)

\* What the remote answers once the gate has come to rest: telemetry with no
\* velocity above 0, or a failing poll.
AtRest(fetch, body) ==
    fetch = "ok" =>
        (body[1].first_engine_vel_int <= 0 /\ body[1].second_engine_vel_int <= 0)

\* The host's periodic poll (should_poll is True) calls update().
Poll(fetch, body) ==
    /\ phase = "live"
    /\ gateSettled => AtRest(fetch, body)
    /\ RunUpdate(fetch, body)
    /\ UNCHANGED <<phase, access_token, _obtained_token, sent, scheduled, revoked,
                   gateSettled>>

\* Mutant: the tick's callback schedules nothing.
_check_state_noSchedule ==
    /\ phase = "live"
    /\ timers > 0
    /\ scheduled < MaxScheduled
    /\ scheduled' = scheduled
    /\ status' = <<>>
    /\ last' = [op |-> "_check_state", out |-> NoneVal, ret |-> NoneVal, exc |-> "none"]
    /\ UNCHANGED <<phase, _state, _available, _unsub_listener_cover, access_token,
                   _obtained_token, timers, unsubCalls, sent, cmdSincePoll, revoked,
                   gateSettled>>

\* A tick of the registered timer: _check_state schedules a forced update.
_check_state ==
    /\ phase = "live"
    /\ timers > 0
    /\ scheduled < MaxScheduled
    /\ scheduled' = scheduled + 1
    /\ status' = <<>>
    /\ last' = [op |-> "_check_state", out |-> NoneVal, ret |-> NoneVal, exc |-> "none"]
    /\ UNCHANGED <<phase, _state, _available, _unsub_listener_cover, access_token,
                   _obtained_token, timers, unsubCalls, sent, cmdSincePoll, revoked,
                   gateSettled>>

\* The host runs an update that a tick scheduled. Once the gate is at rest
\* the update is taken to complete (no exception other than the two that
\* update() handles).
ScheduledUpdate(fetch, body) ==
    /\ phase = "live"
    /\ scheduled > 0
    /\ gateSettled => (AtRest(fetch, body) /\ fetch # "OtherError")
    /\ scheduled' = scheduled - 1
    /\ RunUpdate(fetch, body)
    /\ UNCHANGED <<phase, access_token, _obtained_token, sent, revoked, gateSettled>>

\* Mutant: __del__ revokes any token, configured or acquired.
__del__revokesAny(revOut) ==
    /\ phase \in {"live", "failed"}
    /\ phase' = "deleted"
    /\ IF access_token # NoneVal
       THEN /\ revoked' = revoked + 1
            /\ last' = [op |-> "__del__", out |-> revOut, ret |-> NoneVal,
                        exc |-> IF revOut = "error" THEN "error" ELSE "none"]
       ELSE /\ revoked' = revoked
            /\ last' = [op |-> "__del__", out |-> "notcalled", ret |-> NoneVal,
                        exc |-> "none"]
    /\ status' = <<>>
    /\ UNCHANGED <<_state, _available, _unsub_listener_cover, access_token,
                   _obtained_token, timers, unsubCalls, sent, scheduled, cmdSincePoll,
                   gateSettled>>

\* BftCover.__del__, run by the interpreter when the object is finalized,
\* also for an object whose __init__ raised. revOut: how the request of
\* remove_token ends ("ok", "error" raised). Reading self._obtained_token
\* raises AttributeError when __init__ never assigned it. The interpreter
\* discards an exception that leaves a finalizer, so last.exc is what was
\* raised inside __del__, not something the owner sees.
__del__(revOut) ==
    /\ phase \in {"live", "failed"}
    /\ phase' = "deleted"
    /\ IF _obtained_token = "unset"
       THEN /\ revoked' = revoked
            /\ last' = [op |-> "__del__", out |-> "notcalled", ret |-> NoneVal,
                        exc |-> "AttributeError"]
       ELSE IF access_token # NoneVal
       THEN /\ revoked' = revoked + 1
            /\ last' = [op |-> "__del__", out |-> revOut, ret |-> NoneVal,
                        exc |-> IF revOut = "error" THEN "error" ELSE "none"]
       ELSE /\ revoked' = revoked
            /\ last' = [op |-> "__del__", out |-> "notcalled", ret |-> NoneVal,
                        exc |-> "none"]
    /\ status' = <<>>
    /\ UNCHANGED <<_state, _available, _unsub_listener_cover, access_token,
                   _obtained_token, timers, unsubCalls, sent, scheduled, cmdSincePoll,
                   gateSettled>>

\* The remote gate comes to rest and stays at rest.
Settle ==
    /\ phase = "live"
    /\ ~gateSettled
    /\ gateSettled' = TRUE
    /\ status' = <<>>
    /\ last' = [op |-> "Settle", out |-> NoneVal, ret |-> NoneVal, exc |-> "none"]
    /\ UNCHANGED <<phase, _state, _available, _unsub_listener_cover, access_token,
                   _obtained_token, timers, unsubCalls, sent, scheduled, cmdSincePoll,
                   revoked>>

Next ==
    \/ \E tokenCfg \in BOOLEAN, tokOut \in {"ok", "KeyError", "error"},
          devOut \in {"found", "notfound", "error"},
          fetch \in FetchOutcomes :
            \E body \in Bodies(fetch) : __init__(tokenCfg, tokOut, devOut, fetch, body)
    \/ \E out \in PutOutcomes : close_cover(out)
    \/ \E out \in PutOutcomes : open_cover(out)
    \/ \E out \in PutOutcomes : stop_cover(out)
    \/ \E fetch \in FetchOutcomes : \E body \in Bodies(fetch) : Poll(fetch, body)
    \/ _check_state
    \/ \E fetch \in FetchOutcomes : \E body \in Bodies(fetch) : ScheduledUpdate(fetch, body)
    \/ \E revOut \in {"ok", "error"} : __del__(revOut)

Spec == Init /\ [][Next]_vars

-----------------------------------------------------------------------------
(* The entity kept alive while the remote gate comes to rest, with the timer *)
(* firing and the scheduled updates running                                  *)

\* The entity as __init__ leaves it when the configuration supplies the
\* token and the constructor completes: the first update() has run.
InitLive ==
    \E fetch \in {"ok", "ConnectionError", "KeyError"} : \E body \in Bodies(fetch) :
        LET u == update(fetch, body, NoneVal, TRUE, NoneVal, "cfg")
        IN  /\ phase = "live"
            /\ _state = u.state
            /\ _available = u.available
            /\ _unsub_listener_cover = u.unsub
            /\ access_token = "cfg"
            /\ _obtained_token = "unset"
            /\ status = body
            /\ timers = 0
            /\ unsubCalls = 0
            /\ sent = <<>>
            /\ scheduled = 0
            /\ cmdSincePoll = FALSE
            /\ revoked = 0
            /\ gateSettled = FALSE
            /\ last = [op |-> "__init__", out |-> fetch, ret |-> NoneVal, exc |-> "none"]

NextLive ==
    \/ \E out \in PutOutcomes : Len(sent) < MaxLiveSent /\ close_cover(out)
    \/ \E out \in PutOutcomes : Len(sent) < MaxLiveSent /\ open_cover(out)
    \/ \E out \in PutOutcomes : Len(sent) < MaxLiveSent /\ stop_cover(out)
    \/ \E fetch \in FetchOutcomes : \E body \in Bodies(fetch) : Poll(fetch, body)
    \/ _check_state
    \/ \E fetch \in FetchOutcomes : \E body \in Bodies(fetch) : ScheduledUpdate(fetch, body)
    \/ Settle

\* track_utc_time_change keeps calling _check_state while it is registered,
\* and the host runs every update that was scheduled.
SpecLive ==
    /\ InitLive
    /\ [][NextLive]_vars
    /\ WF_vars(_check_state)
    /\ WF_vars(\E fetch \in FetchOutcomes : \E body \in Bodies(fetch) :
                  ScheduledUpdate(fetch, body))

-----------------------------------------------------------------------------
(* The classifier on its own: a sample is drawn, then classified *)

InitClassify ==
    /\ phase = "sample"
    /\ status \in {<<t>> : t \in ClassifierInputs}
    /\ _state = NoneVal
    /\ _available = TRUE
    /\ _unsub_listener_cover = NoneVal
    /\ access_token = "cfg"
    /\ _obtained_token = "unset"
    /\ timers = 0
    /\ unsubCalls = 0
    /\ sent = <<>>
    /\ scheduled = 0
    /\ cmdSincePoll = FALSE
    /\ revoked = 0
    /\ gateSettled = FALSE
    /\ last = [op |-> "none", out |-> NoneVal, ret |-> NoneVal, exc |-> "none"]

\* self._state = self._get_gate_status(status)
Classify ==
    /\ phase = "sample"
    /\ phase' = "classified"
    /\ _state' = _get_gate_status(status[1])
    /\ last' = [op |-> "_get_gate_status", out |-> "ok", ret |-> NoneVal, exc |-> "none"]
    /\ UNCHANGED <<_available, _unsub_listener_cover, access_token, _obtained_token,
                   status, timers, unsubCalls, sent, scheduled, cmdSincePoll, revoked,
                   gateSettled>>

NextClassify == Classify

SpecClassify == InitClassify /\ [][NextClassify]_vars

-----------------------------------------------------------------------------
(* Properties *)

WatcherActive == _unsub_listener_cover # NoneVal

UpdateCompleted == last.op = "update" /\ last.exc = "none"

\* C1 as stated: outside the window between a command and the next completed
\* poll, the watcher is active if and only if _state is "moving".
C1_WatcherActiveIffMoving ==
    (phase = "live" /\ ~cmdSincePoll) => (WatcherActive <=> _state = STATE_MOVING)

\* C1 amended: outside the window between a command and the next completed
\* poll, an active watcher implies that _state is "moving" (a "moving" state
\* found by a poll or by construction does not start the watcher).
C1_WatcherActiveOnlyWhileMoving ==
    (phase = "live" /\ ~cmdSincePoll /\ WatcherActive) => _state = STATE_MOVING

C1_Witness ==
    /\ phase = "live" /\ UpdateCompleted /\ ~cmdSincePoll
    /\ WatcherActive /\ _state = STATE_MOVING /\ Len(sent) > 0

\* C2: a completed update() that ends in "moving" leaves the handle, the
\* registration and the count of cancellations as they were; one that ends in
\* any other state leaves no handle and invokes the handle once if there was
\* one; a non-moving poll right after a non-moving poll invokes nothing.
C2_SettledPollCancelsOnce ==
    [][(last'.op = "update" /\ last'.exc = "none") =>
        /\ _state' = STATE_MOVING =>
             /\ _unsub_listener_cover' = _unsub_listener_cover
             /\ unsubCalls' = unsubCalls
             /\ timers' = timers
        /\ _state' # STATE_MOVING =>
             /\ _unsub_listener_cover' = NoneVal
             /\ unsubCalls' = unsubCalls + (IF WatcherActive THEN 1 ELSE 0)
             /\ timers' = 0
        /\ (UpdateCompleted /\ _state # STATE_MOVING /\ _state' # STATE_MOVING) =>
             /\ unsubCalls' = unsubCalls
             /\ _unsub_listener_cover' = _unsub_listener_cover]_vars

C2_Witness ==
    /\ phase = "live" /\ UpdateCompleted /\ _state # STATE_MOVING
    /\ Len(sent) > 0 /\ unsubCalls = 1 /\ ~WatcherActive /\ timers = 0

\* C3: after an update() whose fetch failed with a connection error or a
\* missing field, no exception left update(), _state is "offline" and
\* _available is false.
C3_FailedFetchOfflineUnavailable ==
    (phase = "live" /\ last.op = "update" /\ last.out \in {"ConnectionError", "KeyError"})
        => (last.exc = "none" /\ _state = STATE_OFFLINE /\ _available = FALSE)

\* C4: close_cover() called while _state is "closed" sends no command and
\* leaves the handle, _state and _available unchanged.
C4_CloseWhenClosedIsNoOp ==
    [][(last'.op = "close_cover" /\ _state = STATE_CLOSED) =>
        /\ sent' = sent
        /\ _unsub_listener_cover' = _unsub_listener_cover
        /\ timers' = timers
        /\ _state' = _state
        /\ _available' = _available]_vars

CommandVerb(op) ==
    CASE op = "close_cover" -> "close"
      [] op = "open_cover" -> "open"
      [] op = "stop_cover" -> "stop"

\* C5: a command that is not skipped and whose request returns a response
\* sends exactly its own verb, returns with the watcher active, and returns
\* True exactly when the response's status is "done" (False otherwise).
C5_CommandSendsStartsReturns ==
    [][(last'.op \in {"close_cover", "open_cover", "stop_cover"}
        /\ last'.out \in {"done", "other", "nostatus"}) =>
        /\ sent' = Append(sent, CommandVerb(last'.op))
        /\ _unsub_listener_cover' # NoneVal
        /\ timers' = 1
        /\ last'.exc = "none"
        /\ last'.ret = (IF last'.out = "done" THEN "True" ELSE "False")]_vars

Sample == status[1]

Classified == phase = "classified"

Stationary == Sample.first_engine_vel_int = 0 /\ Sample.second_engine_vel_int = 0

ValidSample ==
    /\ Sample.first_engine_pos_int \in 0 .. 100
    /\ Sample.second_engine_pos_int \in 0 .. 100
    /\ Sample.first_engine_vel_int >= 0
    /\ Sample.second_engine_vel_int >= 0

\* C6: a sample with both positions 100 and both velocities 0 classifies as
\* "open".
C6_FullAndStationaryIsOpen ==
    (Classified /\ Stationary
     /\ Sample.first_engine_pos_int = 100 /\ Sample.second_engine_pos_int = 100)
        => _state = STATE_OPEN

C6_Witness ==
    /\ Classified /\ _state = STATE_OPEN /\ Stationary
    /\ Sample.first_engine_pos_int = 100 /\ Sample.second_engine_pos_int = 100

\* C7: a sample with both velocities 0 and a position above 0, other than
\* both positions 100, classifies as "stopped".
C7_StationaryPartWayIsStopped ==
    (Classified /\ Stationary
     /\ (Sample.first_engine_pos_int > 0 \/ Sample.second_engine_pos_int > 0)
     /\ ~(Sample.first_engine_pos_int = 100 /\ Sample.second_engine_pos_int = 100))
        => _state = STATE_STOPPED

C7_Witness ==
    /\ Classified /\ _state = STATE_STOPPED /\ Stationary
    /\ Sample.first_engine_pos_int = 0 /\ Sample.second_engine_pos_int = 5

\* C8: on samples with positions in 0..100 and velocities >= 0, the result is
\* "closed" exactly when both positions and both velocities are 0.
C8_ClosedIffAllZero ==
    (Classified /\ ValidSample) =>
        (_state = STATE_CLOSED <=>
            (Stationary /\ Sample.first_engine_pos_int = 0
                        /\ Sample.second_engine_pos_int = 0))

C8_Witness ==
    /\ Classified /\ _state = STATE_CLOSED /\ Stationary
    /\ Sample.first_engine_pos_int = 0 /\ Sample.second_engine_pos_int = 0

\* C9: a sample with a velocity above 0 classifies as "moving", whatever the
\* positions.
C9_AnyVelocityIsMoving ==
    (Classified
     /\ (Sample.first_engine_vel_int > 0 \/ Sample.second_engine_vel_int > 0))
        => _state = STATE_MOVING

C9_Witness ==
    /\ Classified /\ _state = STATE_MOVING
    /\ Sample.first_engine_vel_int > 0 /\ Sample.second_engine_vel_int = 0
    /\ Sample.first_engine_pos_int = 100 /\ Sample.second_engine_pos_int = 100

\* C10: on samples with positions in 0..100 and velocities >= 0 the result is
\* one of "open", "stopped", "closed", "moving": never None, never "offline".
C10_ClassifierTotalOnValidSamples ==
    (Classified /\ ValidSample) =>
        _state \in {STATE_OPEN, STATE_STOPPED, STATE_CLOSED, STATE_MOVING}

C10_Witness ==
    /\ Classified /\ ValidSample /\ _state = STATE_MOVING
    /\ Sample.first_engine_vel_int = 0 /\ Sample.second_engine_vel_int > 0
    /\ Sample.first_engine_pos_int = 0 /\ Sample.second_engine_pos_int = 0

Commands == {"close_cover", "open_cover", "stop_cover"}

\* C11: after an update() that fetched telemetry (also the one inside
\* __init__), _available is true and _state is the classifier's result for
\* that telemetry, which is not "offline" and, for telemetry with positions
\* in 0..100 and velocities >= 0, is one of the four gate states.
C11_SuccessfulUpdateAvailableAndClassified ==
    (phase = "live" /\ status # <<>>) =>
        /\ _available = TRUE
        /\ _state = _get_gate_status(Sample)
        /\ _state # STATE_OFFLINE
        /\ ValidSample =>
             _state \in {STATE_OPEN, STATE_STOPPED, STATE_CLOSED, STATE_MOVING}

C11_Witness ==
    /\ phase = "live" /\ last.op = "update" /\ last.out = "ok" /\ status # <<>>
    /\ ValidSample /\ _available = TRUE /\ _state = STATE_STOPPED /\ Len(sent) > 0

\* C12: when the update() inside __init__ fails with a connection error or a
\* missing field, __init__ completes and the entity has _state "offline" and
\* _available false.
C12_FailedFirstUpdateOfflineUnavailable ==
    (last.op = "__init__" /\ last.out \in {"ConnectionError", "KeyError"}) =>
        (phase = "live" /\ _state = STATE_OFFLINE /\ _available = FALSE)

\* C13: a command whose request raises lets the exception out and leaves the
\* handle, the registrations, _state and _available as they were.
C13_FailedCommandPropagatesNoEffect ==
    [][(last'.op \in Commands /\ last'.out = "error") =>
        /\ last'.exc = "error"
        /\ _unsub_listener_cover' = _unsub_listener_cover
        /\ timers' = timers
        /\ _state' = _state
        /\ _available' = _available]_vars

C13_Witness ==
    /\ phase = "live" /\ last.op = "open_cover" /\ last.out = "error"
    /\ last.exc = "error" /\ ~WatcherActive /\ timers = 0
    /\ sent = <<"open">>

\* C15: at most one timer is registered, and one is registered exactly when
\* the entity holds a handle, so invoking the handle leaves no timer.
C15_AtMostOneTimerAndHandleHeld ==
    /\ timers \in {0, 1}
    /\ timers = 1 <=> WatcherActive

C15_Witness ==
    /\ phase = "live" /\ Len(sent) = 2 /\ last.op \in Commands /\ last.out = "done"
    /\ WatcherActive /\ timers = 1 /\ unsubCalls = 0

\* C20: a command, skipped, sent or failed, changes neither _state nor
\* _available; the two change only in update() and __init__.
C20_CommandsKeepStateAndAvailable ==
    [][/\ last'.op \in Commands => (_state' = _state /\ _available' = _available)
       /\ (_state' # _state \/ _available' # _available) =>
            last'.op \in {"update", "__init__"}]_vars

C20_Witness ==
    /\ phase = "live" /\ last.op = "close_cover" /\ last.out = "done"
    /\ last.ret = "True" /\ _state = STATE_OPEN /\ WatcherActive

\* How many of the four guards the sample satisfies.
GuardCount ==
    (IF IsOpenGuard(Sample) THEN 1 ELSE 0) + (IF IsStoppedGuard(Sample) THEN 1 ELSE 0)
    + (IF IsClosedGuard(Sample) THEN 1 ELSE 0) + (IF IsMovingGuard(Sample) THEN 1 ELSE 0)

FullAndStationary ==
    Stationary /\ Sample.first_engine_pos_int = 100 /\ Sample.second_engine_pos_int = 100

\* C19 as stated: a sample with positions in 0..100 and velocities >= 0
\* satisfies at most one guard.
C19_GuardsMutuallyExclusive ==
    (Classified /\ ValidSample) => GuardCount <= 1

\* C19 amended: a sample with positions in 0..100 and velocities >= 0
\* satisfies at most one guard, except the sample with both positions 100 and
\* both velocities 0, which satisfies the "open" and the "stopped" guard and
\* is "open" only because that guard is tested first.
C19_GuardsExclusiveButOpenStopped ==
    (Classified /\ ValidSample) =>
        /\ ~FullAndStationary => GuardCount <= 1
        /\ FullAndStationary =>
             /\ IsOpenGuard(Sample) /\ IsStoppedGuard(Sample) /\ GuardCount = 2
             /\ _state = STATE_OPEN

C19_Witness ==
    /\ Classified /\ ValidSample /\ FullAndStationary
    /\ IsOpenGuard(Sample) /\ IsStoppedGuard(Sample) /\ _state = STATE_OPEN

C16_WatcherEventuallyStops ==
    /\ (WatcherActive /\ gateSettled) ~> ~WatcherActive
    /\ [][(~WatcherActive /\ WatcherActive') => last'.op \in Commands]_vars

C16_Witness ==
    /\ phase = "live" /\ gateSettled /\ ~WatcherActive /\ timers = 0
    /\ unsubCalls > 0 /\ UpdateCompleted /\ Len(sent) > 0

====
